---- MODULE Spec2Model ----
(***************************************************************************)
(* issue-hunter (src/src/main.rs): a local mirror of GitHub issues.        *)
(*                                                                         *)
(* The store is five tables written with `insert overwrite` and `delete`   *)
(* statements whose text is built with format!().  The commands are        *)
(* add-repo, remove-repo, update (the sync pass) and fetch (the query).    *)
(*                                                                         *)
(* Strings are sequences of one-character strings, so that quoting,        *)
(* escaping and concatenation are computed and not assumed.  An            *)
(* Option<String> is <<>> (None) or <<s>> (Some(s)).  A DateTime<Utc> is a *)
(* number of ticks, TicksPerSec ticks to the second.                       *)
(***************************************************************************)
EXTENDS Integers, Sequences, FiniteSets, TLC

\* ------------------------------------------------------------------ bounds
MaxIssue == 2
MaxTime == 2
MaxRemote == 2
PageLen == 2
MaxFetch == 3
TicksPerSec == 2

\* ----------------------------------------------------------------- helpers
None == <<>>
Some(x) == <<x>>

Min(a, b) == IF a < b THEN a ELSE b

Range(s) == {s[i] : i \in 1..Len(s)}

RECURSIVE Concat(_)
Concat(ss) == IF ss = <<>> THEN <<>> ELSE Head(ss) \o Concat(Tail(ss))

\* The elements of T as a sequence in ascending order of key[x] (key is injective).
RECURSIVE SortBy(_, _)
SortBy(T, key) ==
    IF T = {} THEN <<>>
    ELSE LET x == CHOOSE y \in T : \A z \in T : key[y] <= key[z]
         IN <<x>> \o SortBy(T \ {x}, key)

\* --------------------------------------------------------- statement text
\* fn escape_sql_string: every ' becomes ''.
RECURSIVE escape_sql_string(_)
escape_sql_string(input) ==
    IF input = <<>> THEN <<>>
    ELSE IF Head(input) = "'" THEN <<"'", "'">> \o escape_sql_string(Tail(input))
    ELSE <<Head(input)>> \o escape_sql_string(Tail(input))

\* What the store reads from the text '<inner>' of a statement: '' is one quote,
\* a lone quote ends the literal early and leaves a statement that does not parse.
RECURSIVE SqlLiteral(_)
SqlLiteral(inner) ==
    IF inner = <<>> THEN [ok |-> TRUE, val |-> <<>>]
    ELSE IF Head(inner) # "'"
    THEN LET r == SqlLiteral(Tail(inner))
         IN [ok |-> r.ok, val |-> <<Head(inner)>> \o r.val]
    ELSE IF Len(inner) >= 2 /\ inner[2] = "'"
    THEN LET r == SqlLiteral(Tail(Tail(inner)))
         IN [ok |-> r.ok, val |-> <<"'">> \o r.val]
    ELSE [ok |-> FALSE, val |-> <<>>]

\* created_at.timestamp(), and "%Y-%m-%d %H:%M:%S": whole seconds.
Timestamp(datetime) == datetime \div TicksPerSec

\* value.datetime().unwrap().and_utc(): a stored second as a DateTime.
FromSeconds(secs) == secs * TicksPerSec

\* Repo::full_name
full_name(repo) == repo.owner_name \o <<"/">> \o repo.name

\* ------------------------------------------------------------------ store
Tables == {"repos", "users", "labels", "issues", "issue_labels"}

\* Client::create_table on an empty directory.
EmptyDb == [t \in Tables |-> {}]

\* The primary key of a row of table tbl.
PrimaryKey(tbl, row) ==
    IF tbl \in {"users", "labels", "issues"} THEN <<row.id>>
    ELSE IF tbl = "repos" THEN <<row.owner_name, row.name>>
    ELSE <<row.issue_id, row.label_id>>

InsertAppend(T, tbl, row) == T \cup {row}

\* `insert overwrite <tbl> values(...)`: the row replaces the one with its key.
InsertOverwrite(T, tbl, row) ==
    {x \in T : PrimaryKey(tbl, x) # PrimaryKey(tbl, row)} \cup {row}

\* `delete from <tbl> where ...`: the where clause of the two deletes of Repo::delete.
Matches(tbl, where, x) ==
    IF tbl = "repos" THEN x.owner_name = where.owner_name /\ x.name = where.name
    ELSE x.repo_name = where.repo_name

\* One statement on the store.
Run(d, stmt) ==
    IF stmt.op = "insert"
    THEN [d EXCEPT ![stmt.tbl] = InsertOverwrite(@, stmt.tbl, stmt.row)]
    ELSE [d EXCEPT ![stmt.tbl] = {x \in @ : ~Matches(stmt.tbl, stmt.row, x)}]

\* The first k statements of stmts, in order.
RECURSIVE RunFirst(_, _, _)
RunFirst(d, stmts, k) ==
    IF k = 0 THEN d ELSE RunFirst(Run(d, Head(stmts)), Tail(stmts), k - 1)

\* How many statements can run before one whose text does not parse.
RECURSIVE Parsable(_)
Parsable(stmts) ==
    IF stmts = <<>> \/ ~Head(stmts).ok THEN 0 ELSE 1 + Parsable(Tail(stmts))

\* ------------------------------------------------------------ Bean::insert
\* <Label as Bean>::insert
LabelInsert(label) ==
    LET name == SqlLiteral(escape_sql_string(label.name))
        text == IF label.description = None THEN <<"n", "u", "l", "l">>
                ELSE escape_sql_string(label.description[1])
        description == SqlLiteral(text)
    IN <<[op |-> "insert", tbl |-> "labels", ok |-> name.ok /\ description.ok,
          row |-> [id |-> label.id, name |-> name.val,
                   description |-> Some(description.val)]]>>

\* <IssueLabelLink as Bean>::insert
IssueLabelLinkInsert(link) ==
    <<[op |-> "insert", tbl |-> "issue_labels", ok |-> TRUE,
       row |-> [issue_id |-> link.issue_id, label_id |-> link.label_id]]>>

\* <Repo as Bean>::insert
RepoInsert(repo) ==
    LET owner_name == SqlLiteral(repo.owner_name)
        name == SqlLiteral(repo.name)
    IN <<[op |-> "insert", tbl |-> "repos", ok |-> owner_name.ok /\ name.ok,
          row |-> [owner_name |-> owner_name.val, name |-> name.val]]>>

\* Repo::delete with the issues matched on the bare name instead of full_name().
RepoDeleteByName(repo) ==
    LET owner_name == SqlLiteral(repo.owner_name)
        name == SqlLiteral(repo.name)
    IN <<[op |-> "delete", tbl |-> "repos", ok |-> owner_name.ok /\ name.ok,
          row |-> [owner_name |-> owner_name.val, name |-> name.val]],
         [op |-> "delete", tbl |-> "issues", ok |-> name.ok,
          row |-> [repo_name |-> name.val]]>>

\* <Repo as Bean>::delete
RepoDelete(repo) ==
    LET owner_name == SqlLiteral(repo.owner_name)
        name == SqlLiteral(repo.name)
        repo_name == SqlLiteral(full_name(repo))
    IN <<[op |-> "delete", tbl |-> "repos", ok |-> owner_name.ok /\ name.ok,
          row |-> [owner_name |-> owner_name.val, name |-> name.val]],
         [op |-> "delete", tbl |-> "issues", ok |-> repo_name.ok,
          row |-> [repo_name |-> repo_name.val]]>>

\* <User as Bean>::insert
UserInsert(user) ==
    LET login == SqlLiteral(user.login)
    IN <<[op |-> "insert", tbl |-> "users", ok |-> login.ok,
          row |-> [id |-> user.id, login |-> login.val]]>>

\* The loop over self.labels of <Issue as Bean>::insert.
RECURSIVE LabelLoop(_, _)
LabelLoop(id, labels) ==
    IF labels = <<>> THEN <<>>
    ELSE IssueLabelLinkInsert([issue_id |-> id, label_id |-> Head(labels).id])
         \o LabelInsert(Head(labels))
         \o LabelLoop(id, Tail(labels))

\* Issue::insert without self.user.insert(database)?.
IssueInsertNoUser(issue) ==
    LET title == SqlLiteral(escape_sql_string(issue.title))
    IN <<[op |-> "insert", tbl |-> "issues", ok |-> title.ok,
          row |-> [id |-> issue.id, number |-> issue.number, title |-> title.val,
                   state |-> issue.state, repo_name |-> issue.repo_name,
                   user_id |-> issue.user.id,
                   created_at |-> Timestamp(issue.created_at)]]>>
       \o LabelLoop(issue.id, issue.labels)

\* <Issue as Bean>::insert
IssueInsert(issue) ==
    LET title == SqlLiteral(escape_sql_string(issue.title))
        state == SqlLiteral(issue.state)
        repo_name == SqlLiteral(issue.repo_name)
    IN <<[op |-> "insert", tbl |-> "issues",
          ok |-> title.ok /\ state.ok /\ repo_name.ok,
          row |-> [id |-> issue.id, number |-> issue.number, title |-> title.val,
                   state |-> state.val, repo_name |-> repo_name.val,
                   user_id |-> issue.user.id,
                   created_at |-> Timestamp(issue.created_at)]]>>
       \o UserInsert(issue.user)
       \o LabelLoop(issue.id, issue.labels)

\* ------------------------------------------------------- the remote source
Str_o == <<"o">>
Str_a == <<"a">>
Str_b == <<"b">>
Str_bug == <<"b", "u", "g">>
Str_doc == <<"d", "o", "c">>
Str_its == <<"i", "t", "'", "s">>
Str_open == <<"o", "p", "e", "n">>
Str_closed == <<"c", "l", "o", "s", "e", "d">>
Str_ann == <<"a", "n", "n">>
Str_bob == <<"b", "o", "b">>

\* The repositories a command line may name.
RepoArgs == {[owner_name |-> Str_o, name |-> Str_a], [owner_name |-> Str_o, name |-> Str_b]}

RepoNames == {full_name(r) : r \in RepoArgs}

Label1 == [id |-> 1, name |-> Str_bug, description |-> None]
Label2 == [id |-> 2, name |-> Str_bug, description |-> Some(Str_a)]
Label3 == [id |-> 3, name |-> Str_doc, description |-> Some(Str_its)]

LabelNames == {Str_bug, Str_doc}

Seconds == 1..MaxTime

\* An issue as response.json::<Vec<Issue>>() yields it: the #[serde(skip)] fields
\* repo_name and user_id hold their defaults.  The issues of repository o/a are
\* written by ann and carry label 1; those of o/b by bob, with labels 2 and 3.
RemoteIssue(r, id, secs) ==
    [id |-> id, number |-> 10 + id,
     title |-> IF r.name = Str_a THEN Str_a ELSE Str_its,
     state |-> IF r.name = Str_a THEN Str_open ELSE Str_closed,
     repo_name |-> <<>>, user_id |-> 0,
     user |-> IF r.name = Str_a THEN [id |-> 1, login |-> Str_ann]
              ELSE [id |-> 2, login |-> Str_bob],
     labels |-> IF r.name = Str_a THEN <<Label1>> ELSE <<Label2, Label3>>,
     created_at |-> FromSeconds(secs)]

RemoteIssues(r) == {RemoteIssue(r, id, secs) : id \in 1..MaxIssue, secs \in Seconds}

\* A response: at most PageLen issues, in the order the API lists them.
Pages(r) == UNION {[1..m -> RemoteIssues(r)] : m \in 1..PageLen}

RECURSIVE Count(_)
Count(pages) == IF pages = <<>> THEN 0 ELSE Len(Head(pages)) + Count(Tail(pages))

\* What repository r may hold on the remote side: its pages, of at most MaxRemote
\* issues in all.
PageLists(r) ==
    {pages \in UNION {[1..m -> Pages(r)] : m \in 0..MaxRemote} : Count(pages) <= MaxRemote}

\* GET /repos/{full_name}/issues?page={page}: the page asked for, empty past the end.
RemotePage(pages, page_no) ==
    IF page_no \in 1..Len(pages) THEN pages[page_no] ELSE <<>>

\* Utc::now() at 00:00:00: second 1 is the start of today.
TodayMidnight == FromSeconds(1)

\* ------------------------------------------------------------------ state
VARIABLES
    db,              \* the five tables
    remote,          \* full name -> the pages the remote source holds
    pc,              \* "idle", or "update" while update_issues runs
    todo,            \* the rows of `select * from repos` not yet iterated
    repo,            \* the repository of the current iteration of the for loop
    page,            \* let page
    created_after,   \* let created_after
    oldest_created,  \* let mut oldest_created
    fetches,         \* responses read for the current repository (up to MaxFetch)
    seen,            \* the creation seconds of the issues of those responses
    ev,              \* the last step taken and how it ended
    clean,           \* no command has returned an error so far
    out              \* what the last fetch command listed

vars == <<db, remote, pc, todo, repo, page, created_after,
          oldest_created, fetches, seen, ev, clean, out>>

Event(op, r, ok, n) == [op |-> op, repo |-> r, ok |-> ok, n |-> n]

NoOut == [args |-> None, ok |-> TRUE, issues |-> <<>>]

Idle ==
    /\ pc' = "idle"
    /\ todo' = {}
    /\ repo' = None
    /\ page' = 1
    /\ created_after' = 0
    /\ oldest_created' = None
    /\ fetches' = 0
    /\ seen' = {}

\* The remote sources of at most MaxRemote issues in all.
Remotes ==
    LET Lists == UNION {PageLists(r) : r \in RepoArgs}
    IN {f \in [RepoNames -> Lists] :
          /\ \A r \in RepoArgs : f[full_name(r)] \in PageLists(r)
          /\ \A r1, r2 \in RepoArgs :
                r1 # r2 => Count(f[full_name(r1)]) + Count(f[full_name(r2)]) <= MaxRemote}

Init ==
    /\ db = EmptyDb
    /\ remote \in Remotes
    /\ pc = "idle"
    /\ todo = {}
    /\ repo = None
    /\ page = 1
    /\ created_after = 0
    /\ oldest_created = None
    /\ fetches = 0
    /\ seen = {}
    /\ ev = Event("start", None, TRUE, 0)
    /\ clean = TRUE
    /\ out = NoOut

\* --------------------------------------------------------------- commands
\* Client::add_repo.  A statement may end in a store error: k statements ran.
AddRepo(r) ==
    /\ pc = "idle"
    /\ LET stmts == RepoInsert(r)
       IN \E k \in 0..Parsable(stmts) :
            /\ db' = RunFirst(db, stmts, k)
            /\ ev' = Event("add_repo", Some(r), k = Len(stmts), 0)
            /\ clean' = (clean /\ k = Len(stmts))
    /\ out' = NoOut
    /\ UNCHANGED <<remote, pc, todo, repo, page, created_after,
                   oldest_created, fetches, seen>>

\* Client::remove_repo: the two deletes of Repo::delete.
RemoveRepo(r) ==
    /\ pc = "idle"
    /\ LET stmts == RepoDelete(r)
       IN \E k \in 0..Parsable(stmts) :
            /\ db' = RunFirst(db, stmts, k)
            /\ ev' = Event("remove_repo", Some(r), k = Len(stmts),
                           Cardinality(db["issues"]) - Cardinality(db'["issues"]))
            /\ clean' = (clean /\ k = Len(stmts))
    /\ out' = NoOut
    /\ UNCHANGED <<remote, pc, todo, repo, page, created_after,
                   oldest_created, fetches, seen>>

\* ------------------------------------------------------------ update_issues
\* issue.repo_name = repo.full_name()
Stamp(issue, r) == [issue EXCEPT !.repo_name = full_name(r)]

\* The statements of one response: issue.insert(&self.database)? for each issue.
RECURSIVE PageInsert(_, _)
PageInsert(issues, r) ==
    IF issues = <<>> THEN <<>>
    ELSE IssueInsert(Stamp(Head(issues), r)) \o PageInsert(Tail(issues), r)

\* The match on oldest_created after each insert of the response.
RECURSIVE Oldest(_, _)
Oldest(oldest, issues) ==
    IF issues = <<>> THEN oldest
    ELSE LET issue_created_at == Timestamp(Head(issues).created_at)
         IN Oldest(IF oldest = None THEN Some(issue_created_at)
                   ELSE Some(Min(issue_created_at, oldest[1])),
                   Tail(issues))

WhileAtLeast(oldest, after) == IF oldest = None THEN TRUE ELSE oldest[1] >= after

\* The condition of the while loop.
While(oldest, after) == IF oldest = None THEN TRUE ELSE oldest[1] > after

\* `let page = 1;` is never assigned again: every request asks for the same page.
NextPage(p) == p

\* let created_after: the same value in every turn of the for loop.
CreatedAfter(args) ==
    IF args.create_after # None THEN Timestamp(args.create_after[1])
    ELSE Timestamp(TodayMidnight)

\* The head of update_issues: `select * from repos`.
UpdateStart(args) ==
    /\ pc = "idle"
    /\ pc' = "update"
    /\ created_after' = CreatedAfter(args)
    /\ todo' = db["repos"]
    /\ ev' = Event("update", None, TRUE, 0)
    /\ out' = NoOut
    /\ UNCHANGED <<db, remote, repo, page, oldest_created, fetches, seen, clean>>

\* The next tuple of the for loop, up to the while.
NextRepo ==
    /\ pc = "update" /\ repo = None
    /\ \E r \in todo :
         /\ repo' = Some(r)
         /\ todo' = todo \ {r}
         /\ ev' = Event("repo", Some(r), TRUE, 0)
    /\ page' = 1
    /\ oldest_created' = None
    /\ fetches' = 0
    /\ seen' = {}
    /\ UNCHANGED <<db, remote, pc, created_after, clean, out>>

RetryRequest == UNCHANGED <<pc, todo, repo, page, created_after,
                            oldest_created, fetches, seen>>

\* The command returns the error.
Abort == Idle

\* One turn of the while loop whose request fails: send() returns an error or the
\* status is not a success, or the body is no list of issues.
RequestFails ==
    /\ pc = "update" /\ repo # None
    /\ While(oldest_created, created_after)
    /\ Abort
    /\ ev' = Event("request", repo, FALSE, page)
    /\ clean' = FALSE
    /\ UNCHANGED <<db, remote, out>>

\* One turn of the while loop whose request succeeds: each issue of the response is
\* stamped and inserted.  A store error after k statements ends the command.
Page ==
    /\ pc = "update" /\ repo # None
    /\ While(oldest_created, created_after)
    /\ LET issues == RemotePage(remote[full_name(repo[1])], page)
           stmts == PageInsert(issues, repo[1])
       IN \E k \in 0..Parsable(stmts) :
            /\ db' = RunFirst(db, stmts, k)
            /\ \/ /\ k = Len(stmts)
                  /\ oldest_created' = Oldest(oldest_created, issues)
                  /\ page' = NextPage(page)
                  /\ fetches' = Min(fetches + 1, MaxFetch)
                  /\ seen' = seen \cup {Timestamp(issues[i].created_at) : i \in 1..Len(issues)}
                  /\ ev' = Event("page", repo, TRUE, page)
                  /\ UNCHANGED <<pc, todo, repo, created_after, clean>>
               \/ /\ k < Len(stmts)
                  /\ Idle
                  /\ ev' = Event("page", repo, FALSE, page)
                  /\ clean' = FALSE
    /\ UNCHANGED <<remote, out>>

\* The while loop ends: on to the next tuple.
RepoDone ==
    /\ pc = "update" /\ repo # None
    /\ ~While(oldest_created, created_after)
    /\ repo' = None
    /\ ev' = Event("repo_done", repo, TRUE, fetches)
    /\ UNCHANGED <<db, remote, pc, todo, page, created_after,
                   oldest_created, fetches, seen, clean, out>>

\* The for loop ends: Ok(()).
UpdateDone ==
    /\ pc = "update" /\ repo = None /\ todo = {}
    /\ Idle
    /\ ev' = Event("update_done", None, TRUE, 0)
    /\ UNCHANGED <<db, remote, clean, out>>

\* ------------------------------------------------------------------ fetch
\* implement_from_tuple!(Label)
LabelFrom(row) == [id |-> row.id, name |-> row.name, description |-> row.description]

\* implement_from_tuple!(User)
UserFrom(row) == [id |-> row.id, login |-> row.login]

\* implement_from_tuple!(Issue): user and labels keep their defaults.
IssueFrom(row) ==
    [id |-> row.id, number |-> row.number, title |-> row.title, state |-> row.state,
     repo_name |-> row.repo_name, user_id |-> row.user_id,
     user |-> [id |-> 0, login |-> <<>>], labels |-> <<>>,
     created_at |-> FromSeconds(row.created_at)]

\* A table is scanned in the order of its primary key.
ById(T) == SortBy(T, [x \in T |-> x.id])

\* Issue::load_user: the users row of user_id, a panic when there is none.
load_user(issue, d) ==
    LET rows == {u \in d["users"] : u.id = issue.user_id}
    IN IF rows = {} THEN [ok |-> FALSE, issue |-> issue]
       ELSE [ok |-> TRUE, issue |-> [issue EXCEPT !.user = UserFrom(ById(rows)[1])]]

\* Issue::load_labels: labels joined to issue_labels on the label id.
load_labels(issue, d) ==
    LET rows == {l \in d["labels"] :
                   \E il \in d["issue_labels"] : il.label_id = l.id /\ il.issue_id = issue.id}
        sorted == ById(rows)
    IN [issue EXCEPT !.labels = [i \in 1..Len(sorted) |-> LabelFrom(sorted[i])]]

\* `order by created_at desc`: newest first, rows of one second in scan order.
OrderByCreatedAtDesc(T) ==
    SortBy(T, [x \in T |-> x.id - x.created_at * (1 + Cardinality(T) + MaxIssue)])

OffsetOfNext(args) == args.page * args.page_num

\* `offset {}`: (args.page - 1) * args.page_num
Offset(args) == (args.page - 1) * args.page_num

\* `limit {} offset {}`
Window(rows, limit, offset) == SubSeq(rows, offset + 1, Min(offset + limit, Len(rows)))

\* The bound of `created_at > '{}'`: --today replaces --create-after.
CreateAfter(args) ==
    IF args.today THEN Some(Timestamp(TodayMidnight))
    ELSE IF args.create_after # None THEN Some(Timestamp(args.create_after[1]))
    ELSE None

\* The label filter of fetch_issues: the first labels row of that name, a panic
\* when there is none, then the issue ids linked to its id.  `id in ()` does not
\* parse.
LabelFilter(d, label_name) ==
    LET name == SqlLiteral(label_name)
        rows == {l \in d["labels"] : l.name = name.val}
        label_id == ById(rows)[1].id
        issue_ids == {il.issue_id : il \in {x \in d["issue_labels"] : x.label_id = label_id}}
    IN IF ~name.ok \/ rows = {} THEN [ok |-> FALSE, issue_ids |-> {}]
       ELSE [ok |-> issue_ids # {}, issue_ids |-> issue_ids]

\* Client::fetch_issues up to the where clause: the rows the filters keep.
Matching(d, args) ==
    LET pattern == IF args.repo_name = None THEN [ok |-> TRUE, val |-> <<>>]
                   ELSE SqlLiteral(args.repo_name[1])
        after == CreateAfter(args)
        labelled == IF args.label_name = None THEN [ok |-> TRUE, issue_ids |-> {}]
                    ELSE LabelFilter(d, args.label_name[1])
    IN [ok |-> pattern.ok /\ labelled.ok,
        rows |-> {x \in d["issues"] :
                    /\ args.repo_name # None => x.repo_name = pattern.val
                    /\ after # None => x.created_at > after[1]
                    /\ args.label_name # None => x.id \in labelled.issue_ids}]

\* Client::fetch_issues: the rows the query yields.
fetch_issues(d, args) ==
    LET found == Matching(d, args)
    IN IF found.ok
       THEN [ok |-> TRUE,
             rows |-> Window(OrderByCreatedAtDesc(found.rows), args.page_num, Offset(args))]
       ELSE [ok |-> FALSE, rows |-> <<>>]

\* Command::Fetch: each row mapped to an Issue, then load_user and load_labels.
Listing(d, args) ==
    LET got == fetch_issues(d, args)
        users == [i \in 1..Len(got.rows) |-> load_user(IssueFrom(got.rows[i]), d)]
    IN IF got.ok /\ \A i \in 1..Len(got.rows) : users[i].ok
       THEN [args |-> Some(args), ok |-> TRUE,
             issues |-> [i \in 1..Len(got.rows) |-> load_labels(users[i].issue, d)]]
       ELSE [args |-> Some(args), ok |-> FALSE, issues |-> <<>>]

Fetch(args) ==
    /\ pc = "idle"
    /\ out' = Listing(db, args)
    /\ ev' = Event("fetch", None, out'.ok, 0)
    /\ UNCHANGED <<db, remote, pc, todo, repo, page, created_after, oldest_created,
                   fetches, seen, clean>>

\* The command lines tried: no filter or a label name, or a repository name with
\* --today.
FetchArgs ==
    [repo_name : {None}, create_after : {None}, today : {FALSE},
     label_name : {None} \cup {Some(n) : n \in LabelNames},
     page : 1..2, page_num : {1, MaxIssue}]
    \cup
    [repo_name : {Some(full_name([owner_name |-> Str_o, name |-> Str_b]))},
     create_after : {None}, today : {TRUE}, label_name : {None},
     page : 1..2, page_num : {1, MaxIssue}]

\* The command lines tried: the default (today) and second MaxTime.
UpdateArgs == {[create_after |-> None], [create_after |-> Some(FromSeconds(MaxTime) + 1)]}

Next ==
    \/ \E r \in RepoArgs : AddRepo(r)
    \/ \E r \in RepoArgs : RemoveRepo(r)
    \/ \E args \in UpdateArgs : UpdateStart(args)
    \/ NextRepo
    \/ RequestFails
    \/ Page
    \/ RepoDone
    \/ UpdateDone
    \/ \E args \in FetchArgs : Fetch(args)

Spec == Init /\ [][Next]_vars

\* ------------------------------------------------- one issue, any field values
\* The issue values of the round trip: titles with and without a quote, labels with
\* and without a description, creation times on and off a whole second.
MapIssues ==
    [id : {1}, number : {11}, title : {Str_a, Str_its}, state : {Str_open},
     repo_name : {<<>>}, user_id : {0}, user : {[id |-> 1, login |-> Str_ann]},
     labels : {<<>>, <<Label1>>, <<Label2, Label3>>, <<Label3, Label1>>},
     created_at : {FromSeconds(1), FromSeconds(1) + 1, FromSeconds(MaxTime)}]

\* Repository o/a holds the one issue, o/b none.
MapInit ==
    /\ db = EmptyDb
    /\ \E issue \in MapIssues :
         remote = [n \in RepoNames |->
                     IF n = full_name([owner_name |-> Str_o, name |-> Str_a])
                     THEN <<<<issue>>>> ELSE <<>>]
    /\ pc = "idle"
    /\ todo = {}
    /\ repo = None
    /\ page = 1
    /\ created_after = 0
    /\ oldest_created = None
    /\ fetches = 0
    /\ seen = {}
    /\ ev = Event("start", None, TRUE, 0)
    /\ clean = TRUE
    /\ out = NoOut

MapSpec == MapInit /\ [][Next]_vars

\* ================================================================= claims
InPass == pc = "update" /\ repo # None

\* The pages the remote source holds for the repository of the current pass.
PassPages == remote[full_name(repo[1])]

PageSeconds(issues) == {Timestamp(issues[i].created_at) : i \in 1..Len(issues)}

\* The least creation second of a response (responses of PassPages are not empty).
PageMin(issues) == CHOOSE m \in PageSeconds(issues) : \A t \in PageSeconds(issues) : m <= t

\* Every issue of the response has its row, stamped with the repository.
Persisted(issues, r) ==
    \A i \in 1..Len(issues) :
        \E x \in db["issues"] : x.id = issues[i].id /\ x.repo_name = full_name(r)

\* ------------------------------------------------------------------- C1
\* The per-page minima descend strictly and some page reaches the cutoff.
Descending(pages) == \A n \in 1..(Len(pages) - 1) : PageMin(pages[n]) > PageMin(pages[n + 1])

StopPages(pages) == {n \in 1..Len(pages) : PageMin(pages[n]) <= created_after}

StopPage(pages) == CHOOSE n \in StopPages(pages) : \A m \in StopPages(pages) : n <= m

\* C1 (watermark termination): when the remote source answers page n with its n-th
\* page and the per-page minima descend strictly, the pass reads no response beyond
\* the first page whose minimum is <= cutoff, and when it ends it has read exactly
\* that many and every issue of those pages has its row.
C1_WatermarkTermination ==
    (InPass /\ Descending(PassPages) /\ StopPages(PassPages) # {}) =>
        /\ fetches <= StopPage(PassPages)
        /\ ev.op = "repo_done" =>
             /\ fetches = StopPage(PassPages)
             /\ \A n \in 1..StopPage(PassPages) : Persisted(PassPages[n], repo[1])

\* ------------------------------------------------------------------- C2
FirstPageReachesCutoff ==
    \E t \in PageSeconds(RemotePage(PassPages, 1)) : t <= created_after

\* C2 (stop condition): in a pass, a request is sent exactly when no issue has been
\* read yet or every issue read so far was created after the cutoff; and once the
\* first response holds an issue created at or before the cutoff, that response is
\* the only one read and every issue of it has its row.
C2_StopCondition ==
    [][/\ InPass => ((ev'.op \in {"page", "request"}) <=> (\A t \in seen : t > created_after))
       /\ (InPass /\ fetches >= 1 /\ FirstPageReachesCutoff)' =>
             (fetches = 1 /\ Persisted(RemotePage(PassPages, 1), repo[1]))']_vars

\* A pass that ended after one response of two issues, one newer than the cutoff
\* and one not.
C2_Witness ==
    /\ ev.op = "repo_done" /\ ev.n = 1
    /\ LET first == RemotePage(remote[full_name(ev.repo[1])], 1)
       IN /\ Len(first) = 2
          /\ \E t \in PageSeconds(first) : t > created_after
          /\ \E t \in PageSeconds(first) : t <= created_after
          /\ Persisted(first, ev.repo[1])

\* ------------------------------------------------------------------- C3
\* The row Issue::insert is to leave for an issue of repository r.
IssueRow(issue, r) ==
    [id |-> issue.id, number |-> issue.number, title |-> issue.title,
     state |-> issue.state, repo_name |-> full_name(r), user_id |-> issue.user.id,
     created_at |-> issue.created_at \div TicksPerSec]

\* C3 (idempotent upsert): no table holds two rows with one primary key, and after
\* the inserts of a response the rows of each of its issue ids are the one row of
\* the last issue written with that id.
C3_IdempotentUpsert ==
    /\ \A x, y \in db["issues"] : x.id = y.id => x = y
    /\ \A x, y \in db["users"] : x.id = y.id => x = y
    /\ \A x, y \in db["labels"] : x.id = y.id => x = y
    /\ Cardinality(db["repos"]) <= Cardinality(RepoArgs)
    /\ (ev.op = "page" /\ ev.ok) =>
         LET issues == RemotePage(remote[full_name(ev.repo[1])], ev.n)
         IN \A i \in 1..Len(issues) :
              (\A j \in (i + 1)..Len(issues) : issues[j].id # issues[i].id) =>
                 {x \in db["issues"] : x.id = issues[i].id} = {IssueRow(issues[i], ev.repo[1])}

\* Issue 1 of o/b written over the row issue 1 of o/a left (another title, state
\* and author): the link to label 1 is what only the issues of o/a carry.
C3_Witness ==
    /\ ev.op = "page" /\ ev.ok /\ ev.repo = Some([owner_name |-> Str_o, name |-> Str_b])
    /\ [issue_id |-> 1, label_id |-> 1] \in db["issue_labels"]
    /\ \E x \in db["issues"] : x.id = 1 /\ x.title = Str_its /\ x.state = Str_closed

\* ------------------------------------------------------------------- C4
\* C4 (cascade): a remove_repo that succeeds leaves no repos row of the repository
\* and no issues row of its full name, and keeps every issues row of another name.
C4_Cascade ==
    [][\A r \in RepoArgs :
         (ev'.op = "remove_repo" /\ ev'.ok /\ ev'.repo = Some(r)) =>
            /\ ~\E x \in db'["repos"] : x.owner_name = r.owner_name /\ x.name = r.name
            /\ ~\E x \in db'["issues"] : x.repo_name = full_name(r)
            /\ {x \in db["issues"] : x.repo_name # full_name(r)} \subseteq db'["issues"]]_vars

\* A removal that deleted issues and left those of the other repository.
C4_Witness ==
    /\ ev.op = "remove_repo" /\ ev.ok /\ ev.n >= 1
    /\ \E x \in db["issues"] : x.repo_name # full_name(ev.repo[1])

\* ------------------------------------------------------------------- C5
\* C5 (referential integrity): when every command so far succeeded, each issues row
\* has the users row of its user_id, and each label of a remote issue that has its
\* row has a labels row and the issue_labels row that links them.
C5_ReferentialIntegrity ==
    (clean /\ pc = "idle") =>
        /\ \A x \in db["issues"] : \E u \in db["users"] : u.id = x.user_id
        /\ \A r \in RepoArgs : \A n \in 1..Len(remote[full_name(r)]) :
             LET issues == remote[full_name(r)][n]
             IN \A i \in 1..Len(issues) :
                  (\E x \in db["issues"] : x.id = issues[i].id /\ x.repo_name = full_name(r)) =>
                     \A k \in 1..Len(issues[i].labels) :
                        /\ \E l \in db["labels"] : l.id = issues[i].labels[k].id
                        /\ [issue_id |-> issues[i].id, label_id |-> issues[i].labels[k].id]
                              \in db["issue_labels"]

\* Issues with two labels in the store after an update and a removal, all of which
\* succeeded.
C5_Witness ==
    /\ clean /\ pc = "idle" /\ ev.op = "remove_repo"
    /\ \E x \in db["issues"] : Cardinality({il \in db["issue_labels"] : il.issue_id = x.id}) >= 2

\* ------------------------------------------------------------------- C9
\* C9 (failure without retry or loss): a request that fails ends the command with
\* an error and leaves the five tables as they were; nothing of that invocation
\* follows it.
C9_FailureNoRetryNoLoss ==
    [][/\ ev'.op = "request" => (db' = db /\ pc' = "idle" /\ ~ev'.ok)
       /\ ev.op = "request" => ev'.op \notin {"request", "page", "repo", "repo_done", "update_done"}]_vars

\* A request that failed after a response had been written.
C9_Witness ==
    /\ ev.op = "request" /\ pc = "idle"
    /\ db["issues"] # {} /\ db["users"] # {} /\ db["issue_labels"] # {}

\* ------------------------------------------------------------------ C10
\* C10 (write order of Issue::insert): the labels row is written before the
\* issue_labels row that refers to it, so that whatever statement a store error
\* interrupts, every issue_labels row has the labels row of its label_id.
C10_LabelBeforeLink ==
    \A il \in db["issue_labels"] : \E l \in db["labels"] : l.id = il.label_id

\* ------------------------------------------------------------------- C6
\* The issues with a row that an issue_labels row links to a label of that name.
Labelled(name) ==
    {x \in db["issues"] :
        \E il \in db["issue_labels"] : \E l \in db["labels"] :
            il.issue_id = x.id /\ il.label_id = l.id /\ l.name = name}

\* C6 (label filter): a fetch with the name of a stored label as its only filter,
\* and a window that holds every issue, lists exactly the issues linked to a label
\* of that name.
C6_LabelFilter ==
    (/\ out.args # None
     /\ out.args[1].label_name # None /\ out.args[1].repo_name = None
     /\ out.args[1].create_after = None /\ ~out.args[1].today
     /\ out.args[1].page = 1 /\ out.args[1].page_num >= Cardinality(db["issues"])
     /\ \E l \in db["labels"] : l.name = out.args[1].label_name[1]) =>
        LET got == fetch_issues(db, out.args[1])
        IN /\ got.ok
           /\ {got.rows[i].id : i \in 1..Len(got.rows)}
                 = {x.id : x \in Labelled(out.args[1].label_name[1])}

\* ------------------------------------------------------------------- C7
\* C7 (round trip): the issue listed after it was inserted is the issue of the
\* remote source in id, number, title, state, repository, author and set of
\* labels, its creation time cut to the whole second.
C7_RoundTrip ==
    (clean /\ out.args # None /\ out.ok) =>
        \A k \in 1..Len(out.issues) :
            LET r == [owner_name |-> Str_o, name |-> Str_a]
                issue == remote[full_name(r)][1][1]
                read == out.issues[k]
            IN /\ read.id = issue.id /\ read.number = issue.number
               /\ read.title = issue.title /\ read.state = issue.state
               /\ read.repo_name = full_name(r)
               /\ read.user = issue.user
               /\ Range(read.labels) = Range(issue.labels)
               /\ read.created_at = issue.created_at - (issue.created_at % TicksPerSec)

\* ------------------------------------------------------------------- C8
\* C8 (pagination): for the filters of a fetch that matched M issues, the pages
\* 1..ceil(M / page_num) one after the other hold every matching issue once,
\* newest first.
C8_Pagination ==
    out.args # None =>
        LET args == out.args[1]
            found == Matching(db, args)
            M == Cardinality(found.rows)
            pages == (M + args.page_num - 1) \div args.page_num
            all == Concat([p \in 1..pages |-> fetch_issues(db, [args EXCEPT !.page = p]).rows])
        IN found.ok =>
             /\ Len(all) = M
             /\ Range(all) = found.rows
             /\ \A i, j \in 1..Len(all) : i < j => all[i].created_at >= all[j].created_at

\* The second page of one issue each, listed from a store of two issues.
C8_Witness ==
    /\ out.args # None /\ out.ok
    /\ out.args[1].page = 2 /\ out.args[1].page_num = 1 /\ out.args[1].label_name = None
    /\ Len(out.issues) = 1
    /\ Cardinality(db["issues"]) = 2

====
